---- MODULE Spec2Model ----
(***************************************************************************)
(* A model of the command-replay pipeline of the chat extractor:           *)
(*   app/curl_parser.py   parse_curl_command, validate_curl_command        *)
(*   app/api_client.py    execute_curl_command, get_chat_conversations,    *)
(*                        build_messages_curl, extract_messages            *)
(*   app/data_formatter.py transform_raw_chats, parse_conversation         *)
(*   app.py               main                                             *)
(*                                                                         *)
(* Text is a sequence of atoms.  An atom is either one of the characters   *)
(* the code treats specially (space, newline, backslash, the two quotes)   *)
(* or a chunk of ordinary characters ("curl", "chat_conversations", ...).  *)
(* A token (one element of the argument list) is a sequence of atoms.      *)
(***************************************************************************)
EXTENDS Integers, Sequences, FiniteSets, TLC

\* ------------------------------------------------------------------ atoms
SP == " "
NL == "\n"
BS == "\\"
SQ == "'"
DQ == "\""

CURL == "curl"
HOST == "https://claude.ai/api"
OTHERHOST == "https://example.com"
ORGS == "/organizations/"
SLASH == "/"
CC == "chat_conversations"
QM == "?"
AMP == "&"
LIMITEQ == "limit="
TREE == "tree=True&rendering_mode=messages&render_all_tools=true"

\* chunks matched by the character class [a-f0-9-]
HexAtoms == {"ab12", "cd-34", "5", "7", "100"}
\* chunks matched by \d
DigitAtoms == {"5", "7", "100"}

Whitespace == {SP, NL}

\* Python's None where a list or a string is expected: no list the code
\* builds is empty (an argument list starts with "curl", a matched
\* organization id has at least one character)
None == <<>>

\* ------------------------------------------------------------ sequences
Contains(tok, a) == \E i \in 1..Len(tok) : tok[i] = a

\* s.replace(pat, rep): every non-overlapping occurrence, left to right
RECURSIVE Replace(_, _, _)
Replace(s, pat, rep) ==
    IF Len(s) < Len(pat) THEN s
    ELSE IF SubSeq(s, 1, Len(pat)) = pat
         THEN rep \o Replace(SubSeq(s, Len(pat) + 1, Len(s)), pat, rep)
         ELSE <<Head(s)>> \o Replace(Tail(s), pat, rep)

\* the continuation handling with the first replacement alone
JoinContinuations_first_only(s) == Replace(s, <<SP, BS, NL>>, <<SP>>)

\* the continuation handling shared by the parser and the message fetch:
\* text.replace(' \\\n', ' ').replace('\\\n', ' ')
JoinContinuations(s) == Replace(Replace(s, <<SP, BS, NL>>, <<SP>>), <<BS, NL>>, <<SP>>)

\* if s.startswith('curl '): s = s[5:]
StripCurl(s) ==
    IF Len(s) >= 2 /\ s[1] = CURL /\ s[2] = SP THEN SubSeq(s, 3, Len(s)) ELSE s

\* str.strip(): leading and trailing whitespace removed
RECURSIVE LStrip(_)
LStrip(s) == IF s # <<>> /\ Head(s) \in Whitespace THEN LStrip(Tail(s)) ELSE s
RECURSIVE RStrip(_)
RStrip(s) ==
    IF s # <<>> /\ s[Len(s)] \in Whitespace THEN RStrip(SubSeq(s, 1, Len(s) - 1)) ELSE s
Strip(s) == LStrip(RStrip(s))

\* ------------------------------------------------------------ shlex.split
\* The POSIX-mode scanner of shlex.split(s): st is the scanner state
\* ("ws" between tokens, "a" in a word, "sq"/"dq" in quotes, "esc" after a
\* backslash with back the state to return to), tok the token being built,
\* started whether a token is open (an empty quoted string is a token),
\* out the tokens emitted.  The result is [ok, args]; ok = FALSE stands for
\* the ValueError raised at end of input inside quotes or after a backslash.
RECURSIVE Scan(_, _, _, _, _, _)
Scan(s, st, back, tok, started, out) ==
    IF s = <<>> THEN
        IF st \in {"sq", "dq", "esc"} THEN [ok |-> FALSE, args |-> <<>>]
        ELSE [ok |-> TRUE, args |-> IF started THEN Append(out, tok) ELSE out]
    ELSE LET c == Head(s)
             r == Tail(s)
         IN CASE st = "ws" ->
                  IF c \in Whitespace THEN Scan(r, "ws", back, <<>>, FALSE, out)
                  ELSE IF c = BS THEN Scan(r, "esc", "a", <<>>, TRUE, out)
                  ELSE IF c = SQ THEN Scan(r, "sq", back, <<>>, TRUE, out)
                  ELSE IF c = DQ THEN Scan(r, "dq", back, <<>>, TRUE, out)
                  ELSE Scan(r, "a", back, <<c>>, TRUE, out)
              [] st = "a" ->
                  IF c \in Whitespace THEN Scan(r, "ws", back, <<>>, FALSE, Append(out, tok))
                  ELSE IF c = BS THEN Scan(r, "esc", "a", tok, TRUE, out)
                  ELSE IF c = SQ THEN Scan(r, "sq", back, tok, TRUE, out)
                  ELSE IF c = DQ THEN Scan(r, "dq", back, tok, TRUE, out)
                  ELSE Scan(r, "a", back, Append(tok, c), TRUE, out)
              [] st = "sq" ->
                  IF c = SQ THEN Scan(r, "a", back, tok, TRUE, out)
                  ELSE Scan(r, "sq", back, Append(tok, c), TRUE, out)
              [] st = "dq" ->
                  IF c = DQ THEN Scan(r, "a", back, tok, TRUE, out)
                  ELSE IF c = BS THEN Scan(r, "esc", "dq", tok, TRUE, out)
                  ELSE Scan(r, "dq", back, Append(tok, c), TRUE, out)
              [] OTHER ->  \* st = "esc"
                  IF back = "dq" /\ c \notin {BS, DQ}
                  THEN Scan(r, back, back, tok \o <<BS, c>>, TRUE, out)
                  ELSE Scan(r, back, back, Append(tok, c), TRUE, out)

shlex_split(s) == Scan(s, "ws", "a", <<>>, FALSE, <<>>)

\* ------------------------------------------------------- curl_parser.py
\* parse_curl_command whose except branch falls through to the return of
\* the list
parse_curl_command_no_none(curl_text) ==
    LET curl_command == StripCurl(JoinContinuations(curl_text))
        sp == shlex_split(curl_command)
    IN IF sp.ok THEN <<<<CURL>>>> \o sp.args ELSE <<<<CURL>>>>

\* parse_curl_command(curl_text): the argument list, or None when
\* shlex.split raises (the except branch)
parse_curl_command(curl_text) ==
    LET curl_command == StripCurl(JoinContinuations(curl_text))
        sp == shlex_split(curl_command)
    IN IF sp.ok THEN <<<<CURL>>>> \o sp.args ELSE None

\* extract_url(curl_args)
extract_url(curl_args) == IF Len(curl_args) > 1 THEN curl_args[2] ELSE <<"Not found">>

\* re.search(r'/organizations/([a-f0-9-]+)/', s): the positions i of
\* "/organizations/" followed by one or more hex chunks and a "/"
OrgEnd(s, i) ==
    IF i + 1 <= Len(s) /\ s[i] = ORGS
    THEN LET js == {j \in (i + 1)..(Len(s) - 1) :
                        /\ \A k \in (i + 1)..j : s[k] \in HexAtoms
                        /\ s[j + 1] = SLASH}
         IN IF js = {} THEN 0 ELSE CHOOSE j \in js : TRUE
    ELSE 0

OrgMatches(s) == {i \in 1..Len(s) : OrgEnd(s, i) # 0}

\* the first match's group(1), or None
OrgSearch(s) ==
    IF OrgMatches(s) = {} THEN None
    ELSE LET i == CHOOSE i \in OrgMatches(s) : \A k \in OrgMatches(s) : i <= k
         IN SubSeq(s, i + 1, OrgEnd(s, i))

extract_org_id(url) == OrgSearch(url)

\* validate_curl_command without the check of the organization id
validate_curl_command_no_org_check(curl_args) ==
    IF curl_args = None \/ Len(curl_args) < 2
    THEN [valid |-> FALSE, error |-> "Invalid cURL command format",
          url |-> None, org_id |-> None]
    ELSE LET url == extract_url(curl_args)
             org_id == extract_org_id(url)
         IN IF ~Contains(url, HOST)
            THEN [valid |-> FALSE, error |-> "URL does not appear to be a Claude API endpoint",
                  url |-> None, org_id |-> None]
            ELSE [valid |-> TRUE, error |-> "", url |-> url, org_id |-> org_id]

\* validate_curl_command(curl_args)
validate_curl_command(curl_args) ==
    IF curl_args = None \/ Len(curl_args) < 2
    THEN [valid |-> FALSE, error |-> "Invalid cURL command format",
          url |-> None, org_id |-> None]
    ELSE LET url == extract_url(curl_args)
             org_id == extract_org_id(url)
         IN IF ~Contains(url, HOST)
            THEN [valid |-> FALSE, error |-> "URL does not appear to be a Claude API endpoint",
                  url |-> None, org_id |-> None]
            ELSE IF org_id = None
            THEN [valid |-> FALSE, error |-> "Could not extract organization ID from URL",
                  url |-> None, org_id |-> None]
            ELSE [valid |-> TRUE, error |-> "", url |-> url, org_id |-> org_id]

\* --------------------------------------------------------- api_client.py
\* What subprocess.run can give back: it raises (the program cannot be
\* started, the output cannot be decoded), or the process exits with a
\* return code, the set of markers found in its stderr, and a stdout that
\* is JSON text (json = TRUE, data the parsed value) or is not.
Marks == {"403", "Forbidden", "404"}

HINT_AUTH == "Authentication failed (403 Forbidden): your session may have expired"
HINT_ENDPOINT == "API endpoint not found (404): check the URL"

NoData == [kind |-> "null", items |-> <<>>]

\* execute_curl_command with if for elif: the hints are tested one after the
\* other
execute_curl_command_both_hints(o) ==
    IF o.raised
    THEN [success |-> FALSE, data |-> NoData, error |-> <<"Error executing cURL command">>,
          has_stderr |-> FALSE]
    ELSE IF o.rc # 0
    THEN [success |-> FALSE, data |-> NoData,
          error |-> <<"cURL failed with return code">>
                    \o (IF o.stderr \cap {"403", "Forbidden"} # {} THEN <<HINT_AUTH>> ELSE <<>>)
                    \o (IF "404" \in o.stderr THEN <<HINT_ENDPOINT>> ELSE <<>>),
          has_stderr |-> TRUE]
    ELSE IF o.json
    THEN [success |-> TRUE, data |-> o.data, error |-> <<>>, has_stderr |-> FALSE]
    ELSE [success |-> FALSE, data |-> NoData, error |-> <<"Failed to parse response as JSON">>,
          has_stderr |-> FALSE]

\* execute_curl_command(curl_args), given what subprocess.run did
execute_curl_command(o) ==
    IF o.raised
    THEN [success |-> FALSE, data |-> NoData, error |-> <<"Error executing cURL command">>,
          has_stderr |-> FALSE]
    ELSE IF o.rc # 0
    THEN [success |-> FALSE, data |-> NoData,
          error |-> <<"cURL failed with return code">>
                    \o (IF o.stderr \cap {"403", "Forbidden"} # {} THEN <<HINT_AUTH>>
                        ELSE IF "404" \in o.stderr THEN <<HINT_ENDPOINT>>
                        ELSE <<>>),
          has_stderr |-> TRUE]
    ELSE IF o.json
    THEN [success |-> TRUE, data |-> o.data, error |-> <<>>, has_stderr |-> FALSE]
    ELSE [success |-> FALSE, data |-> NoData, error |-> <<"Failed to parse response as JSON">>,
          has_stderr |-> FALSE]

\* re.sub(r'limit=\d+', 'limit=<limit>', arg): every "limit=" followed by
\* one or more digit chunks has the digits replaced
RECURSIVE SkipDigits(_)
SkipDigits(s) == IF s # <<>> /\ Head(s) \in DigitAtoms THEN SkipDigits(Tail(s)) ELSE s

RECURSIVE SubLimit(_, _)
SubLimit(arg, lim) ==
    IF arg = <<>> THEN <<>>
    ELSE IF Head(arg) = LIMITEQ /\ Len(arg) >= 2 /\ arg[2] \in DigitAtoms
         THEN <<LIMITEQ, lim>> \o SubLimit(SkipDigits(Tail(arg)), lim)
         ELSE <<Head(arg)>> \o SubLimit(Tail(arg), lim)

\* SetLimit that appends without looking for an existing limit=
SetLimit_append_only(arg, lim) ==
    IF Contains(arg, QM) THEN arg \o <<AMP, LIMITEQ, lim>>
    ELSE arg \o <<QM, LIMITEQ, lim>>

\* the rewriting of one argument in get_chat_conversations
SetLimit(arg, lim) ==
    IF Contains(arg, QM)
    THEN IF Contains(arg, LIMITEQ) THEN SubLimit(arg, lim)
         ELSE arg \o <<AMP, LIMITEQ, lim>>
    ELSE arg \o <<QM, LIMITEQ, lim>>

\* get_chat_conversations: modified_args, the list handed to
\* execute_curl_command (the first argument naming chat_conversations is
\* rewritten, then the loop breaks)
modified_args(curl_args, lim) ==
    LET hits == {i \in 1..Len(curl_args) : Contains(curl_args[i], CC)}
    IN IF hits = {} THEN curl_args
       ELSE LET i == CHOOSE i \in hits : \A k \in hits : i <= k
            IN [curl_args EXCEPT ![i] = SetLimit(curl_args[i], lim)]

\* the URL built by build_messages_curl
messages_url(org_id, chat_uuid) ==
    <<HOST, ORGS>> \o org_id \o <<SLASH, CC, SLASH, chat_uuid, QM, TREE>>

\* re.sub(r"curl '([^']+)'", "curl '<url>'", s): every "curl '...'" with a
\* non-empty body free of single quotes is rewritten
QuoteEnd(s) ==
    \* s starts right after the opening quote: the position of the closing
    \* quote, or 0
    LET qs == {j \in 1..Len(s) : s[j] = SQ}
    IN IF qs = {} THEN 0 ELSE CHOOSE j \in qs : \A k \in qs : j <= k

RECURSIVE SubCurlUrl(_, _)
SubCurlUrl(s, url) ==
    IF Len(s) < 5 THEN s
    ELSE IF s[1] = CURL /\ s[2] = SP /\ s[3] = SQ /\ QuoteEnd(SubSeq(s, 4, Len(s))) >= 2
         THEN <<CURL, SP, SQ>> \o url \o <<SQ>>
              \o SubCurlUrl(SubSeq(s, 4 + QuoteEnd(SubSeq(s, 4, Len(s))), Len(s)), url)
         ELSE <<Head(s)>> \o SubCurlUrl(Tail(s), url)

\* build_messages_curl(chat_uuid): the rewritten text, or None when the
\* file cannot be read or holds no organization id (the except branch)
build_messages_curl(file, chat_uuid) ==
    IF ~file.exists THEN None
    ELSE LET base_curl == Strip(file.content)
             org_id == OrgSearch(base_curl)
         IN IF org_id = None THEN None
            ELSE SubCurlUrl(JoinContinuations(base_curl), messages_url(org_id, chat_uuid))

\* extract_messages up to subprocess.run: [built, ok, args]; built = FALSE
\* when build_messages_curl gave None, ok = FALSE when shlex.split raises
\* (outside any try)
messages_args(file, chat_uuid) ==
    LET curl_text == build_messages_curl(file, chat_uuid)
        sp == shlex_split(StripCurl(JoinContinuations(curl_text)))
    IN IF curl_text = None THEN [built |-> FALSE, ok |-> TRUE, args |-> None]
       ELSE IF ~sp.ok THEN [built |-> TRUE, ok |-> FALSE, args |-> None]
       ELSE [built |-> TRUE, ok |-> TRUE, args |-> <<<<CURL>>>> \o sp.args]

\* ------------------------------------------------------ data_formatter.py
\* An ISO timestamp string is <<day, hour>> (UTC); JSON null is <<>>.
\* Python's comparison of two ISO strings is the lexicographic one.
NullTs == <<>>
CSTOffset == 6

StrGreater(a, b) == a[1] > b[1] \/ (a[1] = b[1] /\ a[2] > b[2])

\* format_timestamp(ts_string): the time in America/Chicago; a value that
\* is no string comes back unchanged (the except branch)
format_timestamp(ts) ==
    IF ts = NullTs THEN ts
    ELSE IF ts[2] < CSTOffset THEN <<ts[1] - 1, ts[2] + 24 - CSTOffset>>
    ELSE <<ts[1], ts[2] - CSTOffset>>

\* formatted[:10], the date part
DatePart(formatted) == <<formatted[1]>>

\* A raw conversation of the API's answer: shape "dict" with the set has of
\* keys present, or a JSON value that is no object (shape "other").  uuid
\* "None" is JSON null.
Keys == {"name", "uuid", "created_at", "updated_at"}
NoneStr == "None"

\* TransformOne with >= for > (the last of several equally recent records wins)
TransformOne_or_equal(acc, chat) ==
    IF acc.raised THEN acc
    ELSE IF chat.shape # "dict" THEN [acc EXCEPT !.raised = TRUE]
    ELSE IF ~(Keys \subseteq chat.has) THEN acc
    ELSE IF chat.updated_at = NullTs THEN [acc EXCEPT !.raised = TRUE]
    ELSE LET cleaned_chat == [name |-> chat.name, uuid |-> chat.uuid,
                              created_at |-> format_timestamp(chat.created_at),
                              updated_at |-> format_timestamp(chat.updated_at),
                              bucket |-> DatePart(format_timestamp(chat.updated_at))]
             a1 == [acc EXCEPT !.cleaned_chats = Append(@, cleaned_chat)]
         IN IF a1.most_recent_chat = NoneStr
               \/ ~StrGreater(a1.most_recent_ts, chat.updated_at)
            THEN [a1 EXCEPT !.most_recent_ts = chat.updated_at,
                            !.most_recent_chat = chat.uuid]
            ELSE a1

\* TransformOne with the most recent record tracked before the keys are
\* checked (a record that is dropped for a missing name or created_at
\* still counts)
TransformOne_track_first(acc, chat) ==
    IF acc.raised THEN acc
    ELSE IF chat.shape # "dict" THEN [acc EXCEPT !.raised = TRUE]
    ELSE IF ~({"uuid", "updated_at"} \subseteq chat.has) THEN acc
    ELSE IF chat.updated_at = NullTs THEN [acc EXCEPT !.raised = TRUE]
    ELSE LET a0 == IF acc.most_recent_chat = NoneStr
                      \/ StrGreater(chat.updated_at, acc.most_recent_ts)
                   THEN [acc EXCEPT !.most_recent_ts = chat.updated_at,
                                    !.most_recent_chat = chat.uuid]
                   ELSE acc
         IN IF ~(Keys \subseteq chat.has) THEN a0
            ELSE [a0 EXCEPT !.cleaned_chats =
                    Append(@, [name |-> chat.name, uuid |-> chat.uuid,
                               created_at |-> format_timestamp(chat.created_at),
                               updated_at |-> format_timestamp(chat.updated_at),
                               bucket |-> DatePart(format_timestamp(chat.updated_at))])]

\* TransformOne without "most_recent_chat is None or": the comparison with
\* the initial None raises TypeError, which the second try swallows, so
\* nothing is ever tracked
TransformOne_no_sentinel(acc, chat) ==
    IF acc.raised THEN acc
    ELSE IF chat.shape # "dict" THEN [acc EXCEPT !.raised = TRUE]
    ELSE IF ~(Keys \subseteq chat.has) THEN acc
    ELSE IF chat.updated_at = NullTs THEN [acc EXCEPT !.raised = TRUE]
    ELSE LET cleaned_chat == [name |-> chat.name, uuid |-> chat.uuid,
                              created_at |-> format_timestamp(chat.created_at),
                              updated_at |-> format_timestamp(chat.updated_at),
                              bucket |-> DatePart(format_timestamp(chat.updated_at))]
             a1 == [acc EXCEPT !.cleaned_chats = Append(@, cleaned_chat)]
         IN IF a1.most_recent_chat # NoneStr
               /\ StrGreater(chat.updated_at, a1.most_recent_ts)
            THEN [a1 EXCEPT !.most_recent_ts = chat.updated_at,
                            !.most_recent_chat = chat.uuid]
            ELSE a1

\* One pass of the loop of transform_raw_chats: acc is [raised,
\* most_recent_chat, most_recent_ts, cleaned_chats]
TransformOne(acc, chat) ==
    IF acc.raised THEN acc
    ELSE IF chat.shape # "dict" THEN [acc EXCEPT !.raised = TRUE]  \* TypeError
    ELSE IF ~(Keys \subseteq chat.has) THEN acc                    \* KeyError: continue
    ELSE IF chat.updated_at = NullTs THEN [acc EXCEPT !.raised = TRUE]  \* None[:10]
    ELSE LET cleaned_chat == [name |-> chat.name, uuid |-> chat.uuid,
                              created_at |-> format_timestamp(chat.created_at),
                              updated_at |-> format_timestamp(chat.updated_at),
                              bucket |-> DatePart(format_timestamp(chat.updated_at))]
             a1 == [acc EXCEPT !.cleaned_chats = Append(@, cleaned_chat)]
         IN IF a1.most_recent_chat = NoneStr
               \/ StrGreater(chat.updated_at, a1.most_recent_ts)
            THEN [a1 EXCEPT !.most_recent_ts = chat.updated_at,
                            !.most_recent_chat = chat.uuid]
            ELSE a1

RECURSIVE TransformLoop(_, _)
TransformLoop(acc, chats) ==
    IF chats = <<>> THEN acc ELSE TransformLoop(TransformOne(acc, Head(chats)), Tail(chats))

\* transform_raw_chats(raw_chats): a list is iterated, an object yields its
\* keys (strings), anything else cannot be iterated (TypeError)
transform_raw_chats(raw_chats) ==
    LET acc0 == [raised |-> FALSE, most_recent_chat |-> NoneStr,
                 most_recent_ts |-> NullTs, cleaned_chats |-> <<>>]
    IN IF raw_chats.kind \notin {"list", "object"} THEN [acc0 EXCEPT !.raised = TRUE]
       ELSE TransformLoop(acc0, raw_chats.items)

\* A message item of a conversation detail: an object (shape "dict") with
\* or without a sender, and a content that is missing, an empty list
\* ("empty"), a list whose first element has a text ("text"), has none
\* ("notext") or is no object ("nondict"); or a value that is no object.
\* parse_message that takes message_list[0]['text']
parse_message_index_first(content) ==
    CASE content = "text" -> [raised |-> FALSE, msg |-> "hello"]
      [] OTHER -> [raised |-> TRUE, msg |-> NoneStr]  \* IndexError / TypeError / KeyError

\* parse_message(item.get('content')): [raised, msg]
parse_message(content) ==
    CASE content = "empty" -> [raised |-> FALSE, msg |-> NoneStr]   \* the loop body never runs
      [] content = "text" -> [raised |-> FALSE, msg |-> "hello"]
      [] OTHER -> [raised |-> TRUE, msg |-> NoneStr]  \* TypeError / KeyError

RECURSIVE ParseItems(_, _)
ParseItems(acc, items) ==
    IF items = <<>> \/ acc.raised THEN acc
    ELSE LET item == Head(items)
         IN IF item.shape # "dict" THEN ParseItems(acc, Tail(items))
            ELSE LET m == parse_message(item.content)
                     message_info == [author |-> IF item.has_sender THEN item.sender
                                                 ELSE "unknown",
                                      msg |-> m.msg,
                                      ts |-> format_timestamp(item.created_at)]
                 IN IF m.raised THEN [acc EXCEPT !.raised = TRUE]
                    ELSE ParseItems([acc EXCEPT !.messages = Append(@, message_info)],
                                    Tail(items))

\* parse_conversation(data).  data.kind: "falsy" (None, {}, [], 0),
\* "dict" (a non-empty object) or "other" (a non-empty list or string, a
\* number: data['chat_messages'] raises TypeError).  data.mkind is what the
\* object holds under chat_messages: "absent", "falsy", "list" (non-empty),
\* or "other" (a truthy value that is no list).
parse_conversation(data) ==
    LET acc0 == [raised |-> FALSE, messages |-> <<>>]
    IN IF data.kind = "falsy" THEN acc0
       ELSE IF data.kind # "dict" THEN [acc0 EXCEPT !.raised = TRUE]
       ELSE IF data.mkind \in {"absent", "falsy"} THEN acc0
       ELSE IF data.mkind = "list" THEN ParseItems(acc0, data.items)
       ELSE acc0

\* extract_messages(chat_uuid), given what subprocess.run did: [raised,
\* ran, args, data]; data is None (kind "falsy") on every caught failure
NoDetail == [kind |-> "falsy", mkind |-> "absent", items |-> <<>>]

extract_messages(file, chat_uuid, o) ==
    LET ma == messages_args(file, chat_uuid)
    IN IF ~ma.built THEN [raised |-> FALSE, ran |-> FALSE, args |-> None, data |-> NoDetail]
       ELSE IF ~ma.ok THEN [raised |-> TRUE, ran |-> FALSE, args |-> None, data |-> NoDetail]
       ELSE IF o.raised \/ o.rc # 0 \/ ~o.json
            THEN [raised |-> FALSE, ran |-> TRUE, args |-> ma.args, data |-> NoDetail]
       ELSE [raised |-> FALSE, ran |-> TRUE, args |-> ma.args, data |-> o.data]

\* generate_message_list_from_uuid(uuid): [raised, ran, args, msg_list]
generate_message_list_from_uuid(file, uuid, o) ==
    LET x == extract_messages(file, uuid, o)
        p == parse_conversation(x.data)
    IN IF x.raised THEN [raised |-> TRUE, ran |-> x.ran, args |-> x.args, msg_list |-> <<>>]
       ELSE IF x.data.kind = "falsy"
            THEN [raised |-> FALSE, ran |-> x.ran, args |-> x.args, msg_list |-> <<>>]
       ELSE [raised |-> p.raised, ran |-> x.ran, args |-> x.args,
             msg_list |-> IF p.raised THEN <<>> ELSE p.messages]

\* ------------------------------------------------------------- curl_file.py
PLACEHOLDERS == {"YOUR_ORG_ID", "YOUR_COOKIES_HERE"}

\* check_curl_file_exists(): the file is there and holds no placeholder
check_curl_file_exists(file) ==
    file.exists /\ \A i \in 1..Len(file.content) : file.content[i] \notin PLACEHOLDERS

\* read_curl_file(): the stripped content (None when the file is missing
\* or still holds a placeholder)
read_curl_file(file) ==
    IF ~file.exists THEN None
    ELSE IF \E i \in 1..Len(file.content) : file.content[i] \in PLACEHOLDERS THEN None
    ELSE Strip(file.content)

\* ------------------------------------------------------------------ app.py
\* the body of the assembly loop of main after the message list is there:
\* chat_obj (id is the identity of the Python object, the position of the
\* chat in formatted_chats)
chat_obj(id, chat, msg_list) ==
    [id |-> id, name |-> chat.name, uuid |-> chat.uuid, msg_list |-> msg_list,
     arch_dt |-> "cur_dt", create_dt |-> chat.created_at, update_dt |-> chat.updated_at,
     file_name |-> <<chat.bucket, chat.name>>]

\* put that assigns a fresh list whether or not the key is there
put_overwrite(convs, bucket, obj) ==
    [b \in DOMAIN convs \cup {bucket} |-> IF b = bucket THEN <<obj>> ELSE convs[b]]

\* put that writes for a new key only
put_new_only(convs, bucket, obj) ==
    IF bucket \in DOMAIN convs /\ convs[bucket] # <<>>
    THEN convs
    ELSE [b \in DOMAIN convs \cup {bucket} |-> IF b = bucket THEN <<obj>> ELSE convs[b]]

\* the write to the bucket mapping: conversations[bucket] = [chat_obj] for
\* a new key, conversations[bucket].append(chat_obj) otherwise
put(convs, bucket, obj) ==
    IF bucket \in DOMAIN convs /\ convs[bucket] # <<>>
    THEN [convs EXCEPT ![bucket] = Append(@, obj)]
    ELSE [b \in DOMAIN convs \cup {bucket} |-> IF b = bucket THEN <<obj>> ELSE convs[b]]

\* if chat_obj['uuid'] == last_convo_uuid: last_convo = chat_obj
mark_last(last, obj, last_uuid) == IF obj.uuid = last_uuid THEN <<obj>> ELSE last

DefaultLimit == "100"

\* ------------------------------------------------------------------ state
VARIABLES
    file,             \* curl_command.txt: [exists, content]
    pc,               \* where main is
    curl_text,        \* main: curl_text
    curl_args,        \* main: curl_args
    validation,       \* main: validation
    limit,            \* the limit handed to get_chat_conversations
    outcome,          \* what the last subprocess.run of the list fetch did
    response,         \* main: response
    last_convo_uuid,  \* main: last_convo_uuid
    formatted_chats,  \* main: formatted_chats
    conversations,    \* main: conversations, bucket -> list of chat_obj
    last_convo,       \* main: last_convo (<<>> is None)
    fetches,          \* per chat of formatted_chats, how its message fetch went
    calls,            \* the calls of subprocess.run, in order: the argument list, the
                      \* chat of formatted_chats it is for (0: the list fetch) and the
                      \* conversation detail it answered (NoDetail: none)
                      \* (what: "list" or "messages", uuid: the chat fetched)
    out,              \* the diagnostics printed
    saved             \* "no", "ok" (the archive is written), "failed"

vars == <<file, pc, curl_text, curl_args, validation, limit, outcome, response,
          last_convo_uuid, formatted_chats, conversations, last_convo, fetches,
          calls, out, saved>>

\* ----------------------------------------------------------------- inputs
MaxConvos == 2   \* conversations in the answer of the list fetch (main)
MaxBatch == 2    \* records in a batch handed to transform_raw_chats

SeqsUpTo(S, n) == UNION {[1..k -> S] : k \in 0..n}

\* a lexeme as it is written in the file
Quote(style, body) ==
    CASE style = "sq" -> <<SQ>> \o body \o <<SQ>>
      [] style = "dq" -> <<DQ>> \o body \o <<DQ>>
      [] style = "open" -> <<SQ>> \o body
      [] OTHER -> body

U_ORG == <<HOST, ORGS, "ab12", SLASH, CC>>
HEADER == <<"-H", SP, SQ, "x:", SP, "y", SQ>>
FlagAtoms == {"-H", "-e"}

\* the texts handed to parse_curl_command
ParseUrls ==
    {U_ORG, U_ORG \o <<QM, LIMITEQ, "5">>,
     <<OTHERHOST, ORGS, "ab12", SLASH, CC>>,
     <<HOST, SLASH, CC>>,
     <<HOST, ORGS, "xyz", SLASH, CC>>,
     <<HOST, ORGS, "ab12", "cd-34", SLASH, CC>>,
     <<HOST, ORGS, "ab12">>}
ParsePrefixes ==
    {<<>>, <<CURL, SP>>, <<CURL, SP, "-e", HOST, ORGS, "ab12", SLASH, SP>>,
     <<CURL, SP>> \o HEADER \o <<SP>>,
     <<CURL, BS, NL>>, <<CURL, SP, BS, NL, SP, SP>>}
\* what stands between two arguments: a space, or a backslash and a line
\* break with zero, one or two spaces on either side
Separators ==
    {<<SP>>, <<BS, NL>>, <<BS, NL, SP>>, <<SP, BS, NL, SP, SP>>, <<SP, SP, BS, NL>>,
     <<SP, SP, BS, NL, SP>>}
ParseTails ==
    {<<>>} \cup {sep \o HEADER : sep \in Separators}
           \cup {sep \o <<"-H", SP, DQ, "x:", SP, "y">> : sep \in Separators}
ParseTexts ==
    {pre \o Quote(q, u) \o tl :
        pre \in ParsePrefixes, q \in {"sq", "dq", "bare", "open"}, u \in ParseUrls,
        tl \in ParseTails}
    \cup {<<>>, <<SP>>, <<NL, SP>>, <<CURL>>, <<CURL, SP>>, <<CURL, SP, BS>>}

\* the texts whose argument lists are handed to get_chat_conversations
ExecUrls ==
    {U_ORG, U_ORG \o <<QM, LIMITEQ, "5">>, U_ORG \o <<QM, LIMITEQ, "5", "7">>,
     U_ORG \o <<QM, "tree=1">>, U_ORG \o <<QM, LIMITEQ, "all">>,
     U_ORG \o <<QM, LIMITEQ, "5", AMP, LIMITEQ, "7">>,
     U_ORG \o <<QM, LIMITEQ, AMP, "offset=", "5">>,
     U_ORG \o <<LIMITEQ, "5">>,
     <<HOST, ORGS, "ab12", SLASH, "other">>}
ExecTexts ==
    {<<CURL, SP>> \o Quote(q, u) \o tl :
        q \in {"sq", "dq"}, u \in ExecUrls,
        tl \in {<<>>, <<SP>> \o HEADER, <<SP, "-e", SP, SQ>> \o U_ORG \o <<SQ>>}}
Limits == {"100", "7"}

\* raw conversations
Chat(has, name, uuid, created_at, updated_at) ==
    [shape |-> "dict", has |-> has, name |-> name, uuid |-> uuid,
     created_at |-> created_at, updated_at |-> updated_at]
NotAnObject == [shape |-> "other", has |-> {}, name |-> "", uuid |-> NoneStr,
                created_at |-> NullTs, updated_at |-> NullTs]

\* records of the documented shape (string values), each with all keys or
\* with one key missing
TimeStamps == {<<1, 3>>, <<1, 15>>, <<2, 3>>}
TypedChats ==
    {Chat(has, "A", uuid, <<1, 3>>, ts) :
        has \in {Keys} \cup {Keys \ {k} : k \in Keys}, uuid \in {"u1", "u2"},
        ts \in TimeStamps}
TypedBatches == {[kind |-> "list", items |-> b] : b \in SeqsUpTo(TypedChats, MaxBatch)}

\* what the list fetch of a run of main can answer: records of the
\* documented shape, and records of another shape
MainChats ==
    {Chat(Keys, "A", uuid, <<1, 3>>, ts) : uuid \in {"u1", "u2"}, ts \in {<<2, 3>>, <<2, 15>>}}
    \cup {Chat(Keys \ {"name"}, "A", "u1", <<1, 3>>, <<2, 15>>),
          Chat(Keys, "A", "u1", <<1, 3>>, NullTs),
          Chat(Keys, "A", NoneStr, <<1, 3>>, <<2, 15>>),
          NotAnObject}
MainPayloads ==
    {[kind |-> "list", items |-> b] : b \in SeqsUpTo(MainChats, MaxConvos)}
    \cup {[kind |-> "object", items |-> <<>>], [kind |-> "object", items |-> <<NotAnObject>>],
          [kind |-> "null", items |-> <<>>]}
ExecPayloads ==
    {[kind |-> "list", items |-> <<>>], [kind |-> "null", items |-> <<>>],
     [kind |-> "list", items |-> <<Chat(Keys, "A", "u1", <<1, 3>>, <<2, 15>>)>>]}

\* the outcomes of subprocess.run for the list fetch
ListOutcomes(payloads) ==
    {[raised |-> TRUE, rc |-> 0, stderr |-> {}, json |-> FALSE, data |-> NoData]}
    \cup {[raised |-> FALSE, rc |-> 1, stderr |-> m, json |-> j, data |-> NoData] :
            m \in SUBSET Marks, j \in BOOLEAN}
    \cup {[raised |-> FALSE, rc |-> 0, stderr |-> m, json |-> FALSE, data |-> NoData] :
            m \in {{}, {"404"}}}
    \cup {[raised |-> FALSE, rc |-> 0, stderr |-> {}, json |-> TRUE, data |-> d] :
            d \in payloads}

\* conversation details
Item(has_sender, content) ==
    [shape |-> "dict", has_sender |-> has_sender, sender |-> "human",
     content |-> content, created_at |-> <<2, 3>>]
NotAnItem == [shape |-> "other", has_sender |-> FALSE, sender |-> "",
              content |-> "missing", created_at |-> NullTs]
Detail(mkind, items) == [kind |-> "dict", mkind |-> mkind, items |-> items]
Details ==
    {NoDetail, [kind |-> "other", mkind |-> "absent", items |-> <<>>],
     Detail("absent", <<>>), Detail("other", <<>>),
     Detail("list", <<Item(TRUE, "text")>>),
     Detail("list", <<Item(FALSE, "empty"), NotAnItem, Item(TRUE, "text")>>),
     Detail("list", <<Item(TRUE, "text"), Item(TRUE, "missing")>>)}

\* the outcomes of one message fetch: whether curl_command.txt can be read
\* again, and what subprocess.run did
MsgOutcomes ==
    {[readable |-> FALSE, raised |-> FALSE, rc |-> 0, json |-> FALSE, data |-> NoDetail],
     [readable |-> TRUE, raised |-> TRUE, rc |-> 0, json |-> FALSE, data |-> NoDetail],
     [readable |-> TRUE, raised |-> FALSE, rc |-> 1, json |-> FALSE, data |-> NoDetail],
     [readable |-> TRUE, raised |-> FALSE, rc |-> 0, json |-> FALSE, data |-> NoDetail]}
    \cup {[readable |-> TRUE, raised |-> FALSE, rc |-> 0, json |-> TRUE, data |-> d] :
            d \in Details}

\* how a message fetch went, from its outcome and what the code made of it
FetchKind(o, g) ==
    IF g.raised THEN "raised"
    ELSE IF ~o.readable THEN "underivable"
    ELSE IF o.raised THEN "launch"
    ELSE IF o.rc # 0 THEN "exit"
    ELSE IF ~o.json THEN "notjson"
    ELSE "ok"

\* curl_command.txt
SampleText ==
    <<CURL, SP, SQ, HOST, ORGS, "YOUR_ORG_ID", SLASH, CC, QM, LIMITEQ, "100", SQ, SP, BS, NL,
      SP, SP, "-b", SP, SQ, "YOUR_COOKIES_HERE", SQ>>
MainTexts ==
    {<<CURL, SP, SQ>> \o U_ORG \o <<QM, LIMITEQ, "5", SQ, SP, BS, NL, SP, SP>> \o HEADER \o <<NL>>,
     <<CURL, SP, DQ>> \o U_ORG \o <<DQ, SP>> \o HEADER,
     <<SQ>> \o U_ORG \o <<SQ, SP>> \o HEADER,
     SampleText,
     <<>>, <<NL>>,
     <<CURL, SP, SQ>> \o U_ORG,
     <<CURL, SP, SQ, OTHERHOST, ORGS, "ab12", SLASH, CC, SQ>>,
     <<CURL, SP, SQ, HOST, SLASH, CC, SQ>>,
     <<CURL, SP>> \o HEADER \o <<SP, SQ>> \o U_ORG \o <<SQ>>}
MainFiles ==
    {[exists |-> FALSE, content |-> <<>>]} \cup {[exists |-> TRUE, content |-> t] : t \in MainTexts}

\* --------------------------------------------------------------- main()
NoValidation == [valid |-> FALSE, error |-> "", url |-> None, org_id |-> None]
NoOutcome == [raised |-> FALSE, rc |-> 0, stderr |-> {}, json |-> FALSE, data |-> NoData]
NoResponse == [success |-> FALSE, data |-> NoData, error |-> <<>>, has_stderr |-> FALSE]
NoConversations == [b \in {} |-> <<>>]

\* the locals of main that the assembly writes, before it
Unassembled ==
    /\ last_convo_uuid = NoneStr
    /\ formatted_chats = <<>>
    /\ conversations = NoConversations
    /\ last_convo = <<>>
    /\ fetches = <<>>
    /\ calls = <<>>
    /\ out = {}
    /\ saved = "no"

NoFile == [exists |-> FALSE, content |-> <<>>]

Init ==
    /\ file \in MainFiles
    /\ pc = "check_file"
    /\ curl_text = None
    /\ curl_args = None
    /\ validation = NoValidation
    /\ limit = DefaultLimit
    /\ outcome = NoOutcome
    /\ response = NoResponse
    /\ Unassembled

\* app.py 17-21
CheckFile ==
    /\ pc = "check_file"
    /\ IF check_curl_file_exists(file)
       THEN /\ pc' = "read_file"
            /\ UNCHANGED <<file, out>>
       ELSE /\ pc' = "done"
            /\ out' = out \cup {"No curl_command.txt found or not configured."}
            /\ file' = [exists |-> TRUE, content |-> SampleText]
    /\ UNCHANGED <<curl_text, curl_args, validation, limit, outcome, response,
                   last_convo_uuid, formatted_chats, conversations, last_convo, fetches,
                   calls, saved>>

\* app.py 23-26
ReadFile ==
    /\ pc = "read_file"
    /\ curl_text' = read_curl_file(file)
    /\ pc' = IF read_curl_file(file) = <<>> THEN "done" ELSE "parse"
    /\ UNCHANGED <<file, curl_args, validation, limit, outcome, response, last_convo_uuid,
                   formatted_chats, conversations, last_convo, fetches, calls, out, saved>>

\* app.py 28-31
Parse ==
    /\ pc = "parse"
    /\ curl_args' = parse_curl_command(curl_text)
    /\ IF parse_curl_command(curl_text) = None
       THEN /\ pc' = "done"
            /\ out' = out \cup {"Error parsing cURL command"}
       ELSE /\ pc' = "validate"
            /\ UNCHANGED out
    /\ UNCHANGED <<file, curl_text, validation, limit, outcome, response, last_convo_uuid,
                   formatted_chats, conversations, last_convo, fetches, calls, saved>>

\* the validation stage without its return: the run goes on to the list
\* fetch whatever the result
Validate_no_gate ==
    /\ pc = "validate"
    /\ validation' = validate_curl_command(curl_args)
    /\ pc' = "get_chats"
    /\ out' = IF validate_curl_command(curl_args).valid THEN out
              ELSE out \cup {"Invalid cURL command"}
    /\ UNCHANGED <<file, curl_text, curl_args, limit, outcome, response, last_convo_uuid,
                   formatted_chats, conversations, last_convo, fetches, calls, saved>>

\* app.py 33-41
Validate ==
    /\ pc = "validate"
    /\ validation' = validate_curl_command(curl_args)
    /\ IF validate_curl_command(curl_args).valid
       THEN /\ pc' = "get_chats"
            /\ UNCHANGED out
       ELSE /\ pc' = "done"
            /\ out' = out \cup {"Invalid cURL command"}
    /\ UNCHANGED <<file, curl_text, curl_args, limit, outcome, response, last_convo_uuid,
                   formatted_chats, conversations, last_convo, fetches, calls, saved>>

\* get_chat_conversations(curl_args, limit): [executed, caller], the list
\* handed to subprocess.run and the caller's list afterwards (the rewriting
\* is done on a copy)
get_chat_conversations(args, lim) ==
    [executed |-> modified_args(args, lim), caller |-> args]

\* app.py 44-51
GetChats(payloads) ==
    /\ pc = "get_chats"
    /\ \E o \in ListOutcomes(payloads) :
        LET g == get_chat_conversations(curl_args, limit)
            r == execute_curl_command(o)
        IN /\ outcome' = o
           /\ calls' = Append(calls, [what |-> "list", uuid |-> NoneStr, args |-> g.executed,
                                       chat |-> 0, detail |-> NoDetail])
           /\ curl_args' = g.caller
           /\ response' = r
           /\ IF r.success
              THEN /\ pc' = "transform"
                   /\ UNCHANGED out
              ELSE /\ pc' = "done"
                   /\ out' = out \cup {"API call failed"}
    /\ UNCHANGED <<file, curl_text, validation, limit, last_convo_uuid, formatted_chats,
                   conversations, last_convo, fetches, saved>>

\* app.py 53-60
Transform ==
    /\ pc = "transform"
    /\ LET t == transform_raw_chats(response.data)
       IN IF t.raised
          THEN /\ pc' = "crashed"
               /\ UNCHANGED <<last_convo_uuid, formatted_chats>>
          ELSE /\ pc' = "loop"
               /\ last_convo_uuid' = t.most_recent_chat
               /\ formatted_chats' = t.cleaned_chats
    /\ UNCHANGED <<file, curl_text, curl_args, validation, limit, outcome, response,
                   conversations, last_convo, fetches, calls, out, saved>>

\* app.py 63-85: one pass of the assembly loop, the message fetch included
LoopStep ==
    /\ pc = "loop"
    /\ Len(fetches) < Len(formatted_chats)
    /\ \E o \in MsgOutcomes :
       \E g \in {generate_message_list_from_uuid([file EXCEPT !.exists = o.readable],
                                                 formatted_chats[Len(fetches) + 1].uuid, o)} :
        LET i == Len(fetches) + 1
            chat == formatted_chats[i]
            obj == chat_obj(i, chat, g.msg_list)
        IN /\ fetches' = Append(fetches, FetchKind(o, g))
           /\ calls' = IF g.ran
                       THEN Append(calls, [what |-> "messages", uuid |-> chat.uuid,
                                           args |-> g.args, chat |-> i,
                                           detail |-> IF FetchKind(o, g) \in {"ok", "raised"}
                                                      THEN o.data ELSE NoDetail])
                       ELSE calls
           /\ IF g.raised
              THEN /\ pc' = "crashed"
                   /\ UNCHANGED <<conversations, last_convo, out>>
              ELSE /\ pc' = "loop"
                   /\ last_convo' = mark_last(last_convo, obj, last_convo_uuid)
                   /\ conversations' = put(conversations, chat.bucket, obj)
                   /\ out' = IF g.msg_list = <<>> THEN out \cup {"No messages"} ELSE out
    /\ UNCHANGED <<file, curl_text, curl_args, validation, limit, outcome, response,
                   last_convo_uuid, formatted_chats, saved>>

\* app.py 88-94
Save ==
    /\ pc = "loop"
    /\ Len(fetches) = Len(formatted_chats)
    /\ \E ok \in BOOLEAN :
        /\ saved' = IF ok THEN "ok" ELSE "failed"
        /\ out' = IF ok THEN out ELSE out \cup {"Error saving"}
    /\ pc' = "done"
    /\ UNCHANGED <<file, curl_text, curl_args, validation, limit, outcome, response,
                   last_convo_uuid, formatted_chats, conversations, last_convo, fetches,
                   calls>>

Next ==
    \/ CheckFile
    \/ ReadFile
    \/ Parse
    \/ Validate
    \/ GetChats(MainPayloads)
    \/ Transform
    \/ LoopStep
    \/ Save

\* a run of main
Spec == Init /\ [][Next]_vars

\* ------------------------------------------------ the functions on their own
\* parse_curl_command and validate_curl_command applied to any text
InitParse ==
    /\ file = NoFile
    /\ pc = "parse"
    /\ curl_text \in ParseTexts
    /\ curl_args = None
    /\ validation = NoValidation
    /\ limit = DefaultLimit
    /\ outcome = NoOutcome
    /\ response = NoResponse
    /\ Unassembled

NextParse ==
    \/ Parse
    \/ Validate

SpecParse == InitParse /\ [][NextParse]_vars

\* get_chat_conversations and execute_curl_command applied to any argument
\* list and limit
InitExec ==
    /\ file = NoFile
    /\ pc = "get_chats"
    /\ curl_text \in ExecTexts
    /\ curl_args = parse_curl_command(curl_text)
    /\ validation = validate_curl_command(curl_args)
    /\ limit \in Limits
    /\ outcome = NoOutcome
    /\ response = NoResponse
    /\ Unassembled

NextExec ==
    \/ GetChats(ExecPayloads)

SpecExec == InitExec /\ [][NextExec]_vars

\* transform_raw_chats applied to any batch of records of the documented
\* shape, each with all keys or with one missing
InitTransform ==
    /\ file = NoFile
    /\ pc = "transform"
    /\ curl_text = None
    /\ curl_args = None
    /\ validation = NoValidation
    /\ limit = DefaultLimit
    /\ outcome = NoOutcome
    /\ \E b \in TypedBatches : response = [NoResponse EXCEPT !.success = TRUE, !.data = b]
    /\ Unassembled

NextTransform ==
    \/ Transform

SpecTransform == InitTransform /\ [][NextTransform]_vars

\* ------------------------------------------------------------------ claims
\* the batch handed to transform_raw_chats and its records that have the
\* four keys
Batch == response.data.items
HasKeys(i) == Keys \subseteq Batch[i].has
Valid == {i \in 1..Len(Batch) : HasKeys(i)}
MaxUpdated(i) == \A j \in Valid : ~StrGreater(Batch[j].updated_at, Batch[i].updated_at)

\* C1: the most_recent_uuid returned by transform_raw_chats is the uuid of
\* a record whose raw updated_at is the maximum over the records that have
\* the required keys; of several records with that maximum the first in
\* input order is the one chosen.
C1_MostRecentIsFirstMaximum ==
    (pc = "loop" /\ Valid # {}) =>
        \E i \in Valid :
            /\ MaxUpdated(i)
            /\ \A j \in Valid : MaxUpdated(j) => i <= j
            /\ last_convo_uuid = Batch[i].uuid

\* C1 witness: two records share the maximum and the first one's uuid is
\* returned
C1_Witness ==
    /\ pc = "loop"
    /\ \E i, j \in Valid :
        /\ i < j
        /\ MaxUpdated(i)
        /\ MaxUpdated(j)
        /\ Batch[i].uuid # Batch[j].uuid
        /\ last_convo_uuid = Batch[i].uuid

\* the cleaned record of a raw record
CleanedOf(chat) ==
    [name |-> chat.name, uuid |-> chat.uuid,
     created_at |-> format_timestamp(chat.created_at),
     updated_at |-> format_timestamp(chat.updated_at),
     bucket |-> DatePart(format_timestamp(chat.updated_at))]

RECURSIVE KeptOf(_)
KeptOf(b) ==
    IF b = <<>> THEN <<>>
    ELSE IF Keys \subseteq Head(b).has THEN <<CleanedOf(Head(b))>> \o KeptOf(Tail(b))
    ELSE KeptOf(Tail(b))

\* C9: the cleaned sequence is the subsequence, in input order, of the
\* records that have all four keys; a record missing a key is dropped,
\* contributes nothing to most_recent_uuid and does not stop the records
\* after it from being processed.
C9_CleanedIsKeyedSubsequence ==
    /\ pc # "crashed"
    /\ pc = "loop" =>
        /\ formatted_chats = KeptOf(Batch)
        /\ Valid = {} => last_convo_uuid = NoneStr
        /\ Valid # {} => \E i \in Valid : MaxUpdated(i) /\ last_convo_uuid = Batch[i].uuid

\* C9 witness: a record without a key, more recent than every other, is
\* followed by a record that is kept and is the most recent
C9_Witness ==
    /\ pc = "loop"
    /\ Len(Batch) >= 2
    /\ ~HasKeys(1)
    /\ HasKeys(2)
    /\ "updated_at" \in Batch[1].has
    /\ "uuid" \in Batch[1].has
    /\ StrGreater(Batch[1].updated_at, Batch[2].updated_at)
    /\ Batch[1].uuid # Batch[2].uuid
    /\ Len(formatted_chats) = 1
    /\ last_convo_uuid = Batch[2].uuid

\* the entries built so far: chat i of formatted_chats has its chat_obj
\* once its pass of the loop has ended without an exception
Built == {i \in 1..Len(fetches) : fetches[i] # "raised"}

\* where the entry with identity i is stored
Places(i) ==
    {bp \in (DOMAIN conversations) \X (1..Len(formatted_chats)) :
        /\ bp[2] <= Len(conversations[bp[1]])
        /\ conversations[bp[1]][bp[2]].id = i}

\* C2: every archive entry built is in exactly one bucket of conversations,
\* the bucket keyed by its conversation's bucket string, and last_convo,
\* when not None, is one of the entries stored in the bucket keyed by its
\* conversation's bucket string.
C2_OneBucketPerEntry ==
    /\ \A i \in Built :
        /\ Cardinality(Places(i)) = 1
        /\ \A bp \in Places(i) : bp[1] = formatted_chats[i].bucket
    /\ \A b \in DOMAIN conversations : \A k \in 1..Len(conversations[b]) :
        conversations[b][k].id \in Built
    /\ last_convo # <<>> =>
        /\ last_convo[1].id \in Built
        /\ \E k \in 1..Len(conversations[formatted_chats[last_convo[1].id].bucket]) :
             conversations[formatted_chats[last_convo[1].id].bucket][k] = last_convo[1]

\* C2 witness: the loop has ended with two entries in one bucket and
\* last_convo set
C2_Witness ==
    /\ pc = "done"
    /\ saved = "ok"
    /\ last_convo # <<>>
    /\ \E b \in DOMAIN conversations : Len(conversations[b]) = 2

\* C7: when the message fetch of one conversation fails (the request cannot
\* be derived, the subprocess exits non-zero, the answer is no JSON), the
\* conversation still gets an entry with an empty msg_list, every other
\* conversation is still fetched and archived, and the archive is saved:
\* the run is not aborted.
C7_FailedFetchDoesNotAbort ==
    \A k \in 1..Len(fetches) :
        fetches[k] \in {"underivable", "exit", "notjson"} =>
            /\ pc # "crashed"
            /\ \E bp \in Places(k) : conversations[bp[1]][bp[2]].msg_list = <<>>
            /\ pc = "done" => (saved # "no" /\ Built = 1..Len(formatted_chats))

\* C8: no exception propagates past main: whatever the file holds and
\* whatever the subprocesses answer, the run does not end in an uncaught
\* exception.
C8_NoExceptionEscapes == pc # "crashed"

\* the argument list of the base request with the URL (the argument after
\* "curl") replaced by the message URL of the organization of the base
\* URL and of the conversation
DerivedArgs(base, chat_uuid) ==
    [base EXCEPT ![2] = messages_url(OrgSearch(base[2]), chat_uuid)]

\* C6: the argument list executed for a message fetch is the argument list
\* of the base request with exactly the URL replaced by the message URL of
\* the base URL's organization and of the conversation id.
C6_OnlyUrlChanges ==
    \A k \in 1..Len(calls) :
        calls[k].what = "messages" => calls[k].args = DerivedArgs(curl_args, calls[k].uuid)

\* the list fetch has been made
Fetched == Len(calls) >= 1 /\ calls[1].what = "list"

\* the classification of one exit of the subprocess, the hints left open
Classified ==
    /\ outcome.rc # 0 => ~response.success /\ Head(response.error) = "cURL failed with return code"
    /\ (outcome.rc = 0 /\ ~outcome.json) =>
            ~response.success /\ response.error = <<"Failed to parse response as JSON">>
    /\ (outcome.rc = 0 /\ outcome.json) =>
            response.success /\ response.data = outcome.data

InError(hint) == \E k \in 1..Len(response.error) : response.error[k] = hint

\* C3 as stated: a failure carries the expired-session hint when stderr
\* holds "403" or "Forbidden" and the wrong-endpoint hint when stderr holds
\* "404"; exit 0 without JSON is a malformed-response failure; exit 0 with
\* JSON is a success with the payload; nothing else is a success.
C3_HintPerMarker ==
    Fetched =>
        /\ response.success => (~outcome.raised /\ outcome.rc = 0 /\ outcome.json)
        /\ ~outcome.raised =>
            /\ Classified
            /\ outcome.rc # 0 =>
                /\ outcome.stderr \cap {"403", "Forbidden"} # {} => InError(HINT_AUTH)
                /\ "404" \in outcome.stderr => InError(HINT_ENDPOINT)

\* C3 amended: as C3, but the wrong-endpoint hint is given when stderr
\* holds "404" and neither "403" nor "Forbidden"; a failure carries at most
\* one hint.
C3_OneHintAuthFirst ==
    Fetched =>
        /\ response.success => (~outcome.raised /\ outcome.rc = 0 /\ outcome.json)
        /\ ~outcome.raised =>
            /\ Classified
            /\ outcome.rc # 0 =>
                /\ InError(HINT_AUTH) <=> outcome.stderr \cap {"403", "Forbidden"} # {}
                /\ InError(HINT_ENDPOINT) <=>
                     ("404" \in outcome.stderr /\ outcome.stderr \cap {"403", "Forbidden"} = {})

\* C3 witness: a failed exit whose stderr holds both "403" and "404" has
\* been classified
C3_Witness ==
    /\ Fetched
    /\ ~outcome.raised
    /\ outcome.rc # 0
    /\ {"403", "404"} \subseteq outcome.stderr
    /\ InError(HINT_AUTH)

\* the first argument that names the conversations endpoint (0: none)
FirstCC(args) ==
    IF \E i \in 1..Len(args) : Contains(args[i], CC)
    THEN CHOOSE i \in 1..Len(args) :
            Contains(args[i], CC) /\ \A k \in 1..(i - 1) : ~Contains(args[k], CC)
    ELSE 0

\* arg holds limit=<lim> with no further digit
CarriesLimit(arg, lim) ==
    \E k \in 1..(Len(arg) - 1) :
        /\ arg[k] = LIMITEQ
        /\ arg[k + 1] = lim
        /\ (k + 2 <= Len(arg) => arg[k + 2] \notin DigitAtoms)

\* arg holds a limit= followed by a digit
NumericLimit(arg) ==
    \E k \in 1..(Len(arg) - 1) : arg[k] = LIMITEQ /\ arg[k + 1] \in DigitAtoms

\* arg without the digits that follow a limit=
RECURSIVE DropLimitDigits(_, _)
DropLimitDigits(arg, after) ==
    IF arg = <<>> THEN <<>>
    ELSE IF after /\ Head(arg) \in DigitAtoms THEN DropLimitDigits(Tail(arg), TRUE)
    ELSE <<Head(arg)>> \o DropLimitDigits(Tail(arg), Head(arg) = LIMITEQ)

\* the executed list differs from the caller's at the argument i only, and
\* the caller's list is the one that was parsed
OnlyArgChanged(i) ==
    /\ curl_args = parse_curl_command(curl_text)
    /\ Len(calls[1].args) = Len(curl_args)
    /\ \A k \in 1..Len(curl_args) : k # i => calls[1].args[k] = curl_args[k]

Validated == pc = "get_chats" \/ (pc = "done" /\ curl_args # None)

IsFlag(tok) == tok # <<>> /\ tok[1] \in FlagAtoms

\* the first argument after "curl" that is no flag (None: there is none)
TargetUrl(args) ==
    IF \E i \in 2..Len(args) : ~IsFlag(args[i])
    THEN args[CHOOSE i \in 2..Len(args) :
                ~IsFlag(args[i]) /\ \A k \in 2..(i - 1) : IsFlag(args[k])]
    ELSE None

\* url has a segment /organizations/<hex-or-hyphen>/
HasOrgSegment(url) ==
    \E i \in 1..Len(url) : \E j \in (i + 1)..(Len(url) - 1) :
        /\ url[i] = ORGS
        /\ url[j + 1] = SLASH
        /\ \A k \in (i + 1)..j : url[k] \in HexAtoms

RECURSIVE OpenQuote(_, _)
OpenQuote(s, q) ==
    IF s = <<>> THEN q
    ELSE IF q = "" THEN
        IF Head(s) = BS THEN (IF Len(s) >= 2 THEN OpenQuote(Tail(Tail(s)), q) ELSE q)
        ELSE IF Head(s) \in {SQ, DQ} THEN OpenQuote(Tail(s), Head(s))
        ELSE OpenQuote(Tail(s), q)
    ELSE IF Head(s) = q THEN OpenQuote(Tail(s), "")
    ELSE IF q = DQ /\ Head(s) = BS /\ Len(s) >= 2 THEN OpenQuote(Tail(Tail(s)), q)
    ELSE OpenQuote(Tail(s), q)

Unbalanced(text) == OpenQuote(JoinContinuations(text), "") # ""
EmptyAfterTrim(text) == Strip(text) = <<>>
Parsed == pc # "parse"

\* C5 as stated: parse_curl_command returns no descriptor for a text with
\* unbalanced quotes and for a text that is empty after trimming.
C5_FailsOnEmptyAndUnbalanced ==
    (Parsed /\ (Unbalanced(curl_text) \/ EmptyAfterTrim(curl_text))) => curl_args = None

\* C5 amended: parse_curl_command returns no descriptor for a text with
\* unbalanced quotes; for a text that is empty after trimming it returns
\* the descriptor that holds the command name alone.
C5_FailsOnUnbalancedOnly ==
    Parsed =>
        /\ Unbalanced(curl_text) => curl_args = None
        /\ EmptyAfterTrim(curl_text) => curl_args = <<<<CURL>>>>

\* C5 witness: a text with a quote left open has been refused
C5_Witness ==
    /\ Parsed
    /\ Unbalanced(curl_text)
    /\ ~EmptyAfterTrim(curl_text)
    /\ curl_args = None

\* the request of text s written on a single line: every run of spaces and
\* backslash-newline pairs that holds a line break becomes one space
RECURSIVE GapLen(_)
GapLen(s) ==
    IF s # <<>> /\ Head(s) = SP THEN 1 + GapLen(Tail(s))
    ELSE IF Len(s) >= 2 /\ s[1] = BS /\ s[2] = NL THEN 2 + GapLen(Tail(Tail(s)))
    ELSE 0

RECURSIVE SingleLine(_)
SingleLine(s) ==
    IF s = <<>> THEN <<>>
    ELSE LET n == GapLen(s)
         IN IF n > 0 /\ Contains(SubSeq(s, 1, n), NL)
            THEN <<SP>> \o SingleLine(SubSeq(s, n + 1, Len(s)))
            ELSE IF n > 0
            THEN SubSeq(s, 1, n) \o SingleLine(SubSeq(s, n + 1, Len(s)))
            ELSE <<Head(s)>> \o SingleLine(Tail(s))

Continued(text) == \E i \in 1..(Len(text) - 1) : text[i] = BS /\ text[i + 1] = NL

\* C11: for a request written over several lines with trailing-backslash
\* continuations and any number of spaces around the line breaks,
\* parse_curl_command returns what it returns for the same request written
\* on a single line.
C11_MultiLineAsSingleLine ==
    (Parsed /\ Continued(curl_text)) =>
        /\ ~Continued(SingleLine(curl_text))
        /\ curl_args = parse_curl_command(SingleLine(curl_text))

\* C11 witness: a valid request whose line break has no space before the
\* backslash has been parsed into the tokens curl, URL, -H, header
C11_Witness ==
    /\ Parsed
    /\ Continued(curl_text)
    /\ \E i \in 2..(Len(curl_text) - 1) :
          curl_text[i] = BS /\ curl_text[i + 1] = NL /\ curl_text[i - 1] # SP
    /\ curl_args = <<<<CURL>>, U_ORG, <<"-H">>, <<"x:", SP, "y">>>>

\* the message items of a detail that are objects, in order
ItemsOf(d) == SelectSeq(d.items, LAMBDA it : it.shape = "dict")

\* the record expected for a message item
RecordOf(it) ==
    [author |-> IF it.has_sender THEN it.sender ELSE "unknown",
     msg |-> IF it.content = "empty" THEN NoneStr ELSE "hello",
     ts |-> format_timestamp(it.created_at)]

\* call k fetched a conversation detail that has a message item with an
\* empty content list, the other items having a content with a text
HasEmptyContent(k) ==
    /\ calls[k].what = "messages"
    /\ calls[k].detail.kind = "dict"
    /\ calls[k].detail.mkind = "list"
    /\ \E j \in 1..Len(ItemsOf(calls[k].detail)) : ItemsOf(calls[k].detail)[j].content = "empty"
    /\ \A j \in 1..Len(ItemsOf(calls[k].detail)) :
          ItemsOf(calls[k].detail)[j].content \in {"empty", "text"}

\* C12: for a message item whose content list is empty, parse_conversation
\* raises no error and emits a record for the item with an absent text; the
\* records of the other items are what they are without it.
C12_EmptyContentGivesAbsentText ==
    \A k \in 1..Len(calls) :
        HasEmptyContent(k) =>
            /\ fetches[calls[k].chat] = "ok"
            /\ \E bp \in Places(calls[k].chat) :
                  LET msg_list == conversations[bp[1]][bp[2]].msg_list
                      items == ItemsOf(calls[k].detail)
                  IN /\ Len(msg_list) = Len(items)
                     /\ \A j \in 1..Len(items) : msg_list[j] = RecordOf(items[j])

\* C12 witness: a detail whose first item has an empty content list and
\* whose last item has a text has been archived with both records
C12_Witness ==
    \E k \in 1..Len(calls) :
        /\ HasEmptyContent(k)
        /\ Len(ItemsOf(calls[k].detail)) = 2
        /\ \E bp \in Places(calls[k].chat) :
              /\ conversations[bp[1]][bp[2]].msg_list[1].msg = NoneStr
              /\ conversations[bp[1]][bp[2]].msg_list[2].msg = "hello"

\* the chats whose entry is in the bucket mapping
Stored == {i \in 1..Len(formatted_chats) : Places(i) # {}}

\* C13 as stated: no write to the bucket mapping happens before the last
\* message fetch has completed, that is, no message fetch is made once the
\* mapping has been written.
C13_WritesAfterAllFetches ==
    [][Len(fetches') > Len(fetches) => conversations = NoConversations]_vars

\* C13 amended: the bucket mapping is written once in each pass of the
\* loop, after the message fetch of that pass and before the fetch of the
\* next: a step changes the mapping only by adding the entry of the chat
\* whose fetch it made, and every pass that ends without an exception adds
\* it.
C13_WritePerFetch ==
    [][/\ conversations' # conversations =>
            /\ Len(fetches') = Len(fetches) + 1
            /\ Stored' = Stored \cup {Len(fetches')}
            /\ Len(fetches') \notin Stored
       /\ (Len(fetches') = Len(fetches) + 1 /\ pc' # "crashed") =>
            Stored' = 1..Len(fetches')]_vars

\* C13 witness: the second of two message fetches has been made with the
\* entry of the first chat already in the mapping, and both are stored
C13_Witness ==
    /\ Len(formatted_chats) = 2
    /\ Len(fetches) = 2
    /\ Len(calls) = 3
    /\ calls[3].what = "messages"
    /\ Stored = {1, 2}

\* nothing of the stages after the list fetch has been executed
NothingAfterList ==
    /\ \A k \in 1..Len(calls) : calls[k].what = "list"
    /\ fetches = <<>>
    /\ formatted_chats = <<>>
    /\ conversations = NoConversations
    /\ last_convo = <<>>
    /\ saved = "no"

\* C14: the stages of main are gated: a subprocess is run only when parsing
\* returned a descriptor and validation found it valid; a message fetch is
\* made and the archive written only when the list fetch succeeded; a
\* failure of parsing, validation or the list fetch ends the run with
\* nothing of the later stages executed.
C14_StagesGated ==
    /\ calls # <<>> => (curl_args # None /\ validation.valid)
    /\ (fetches # <<>> \/ saved # "no" \/ Len(calls) > 1) =>
            (response.success /\ calls[1].what = "list")
    /\ (pc # "parse" /\ curl_text # <<>> /\ curl_args = None) =>
            (pc = "done" /\ validation = NoValidation /\ calls = <<>> /\ NothingAfterList)
    /\ (validation # NoValidation /\ ~validation.valid) =>
            (pc = "done" /\ calls = <<>> /\ NothingAfterList)
    /\ (calls # <<>> /\ ~response.success) =>
            (pc = "done" /\ Len(calls) = 1 /\ NothingAfterList)

\* C14 witness: a descriptor has been parsed and found invalid, and the run
\* has ended without a subprocess
C14_Witness ==
    /\ pc = "done"
    /\ Len(curl_args) >= 2
    /\ validation.error = "Could not extract organization ID from URL"
    /\ calls = <<>>
    /\ NothingAfterList

\* the answer of the list fetch is a list of objects whose uuid and
\* updated_at are strings
StringValued ==
    /\ response.success
    /\ response.data.kind = "list"
    /\ \A i \in 1..Len(Batch) :
          /\ Batch[i].shape = "dict"
          /\ Batch[i].uuid # NoneStr
          /\ Batch[i].updated_at # NullTs

\* transform_raw_chats has returned
Transformed == pc \in {"loop", "done"} \/ (pc = "crashed" /\ fetches # <<>>)

\* the loop of main has ended: the archive is assembled
Assembled == pc \in {"loop", "done"} /\ Len(fetches) = Len(formatted_chats)

\* C15: for a batch whose records carry string uuid and updated_at values,
\* most_recent_uuid is None exactly when the cleaned sequence is empty, and
\* otherwise is the uuid of a record that was kept (one of the cleaned
\* sequence); so last_convo is not None once an archive with at least one
\* entry is assembled.
C15_MostRecentAmongCleaned ==
    (StringValued /\ Transformed) =>
        /\ last_convo_uuid = NoneStr <=> formatted_chats = <<>>
        /\ last_convo_uuid # NoneStr =>
              /\ \E j \in 1..Len(formatted_chats) : formatted_chats[j].uuid = last_convo_uuid
              /\ \E i \in Valid : Batch[i].uuid = last_convo_uuid
        /\ (Assembled /\ conversations # NoConversations) =>
              /\ last_convo # <<>>
              /\ last_convo[1].uuid = last_convo_uuid

\* C15 witness: of two records the more recent one was skipped for a
\* missing key; the uuid returned is the other one's and the archive has
\* been saved with last_convo set to its entry
C15_Witness ==
    /\ StringValued
    /\ pc = "done"
    /\ saved = "ok"
    /\ Len(Batch) = 2
    /\ ~HasKeys(1)
    /\ HasKeys(2)
    /\ StrGreater(Batch[1].updated_at, Batch[2].updated_at)
    /\ Batch[1].uuid # Batch[2].uuid
    /\ last_convo_uuid = Batch[2].uuid
    /\ last_convo # <<>>
    /\ last_convo[1].uuid = Batch[2].uuid

====
